---- MODULE Spec2Model ----
(***************************************************************************)
(* Model of src/app.py ("Dev Joke Bot"): the prompt builders, the          *)
(* completion call and the Streamlit session loop.                         *)
(*                                                                         *)
(* Text is a sequence of tokens.  A token is either one character of a     *)
(* text typed by the user (so that str.strip() can be modelled at the      *)
(* character level) or one whole literal of the source (a clause of a      *)
(* prompt, a canned suggestion, a reply of the service).                   *)
(*                                                                         *)
(* One step of Spec is one run of main() from top to bottom, which is what *)
(* Streamlit does for every interaction of the user and for every          *)
(* st.experimental_rerun().                                                *)
(***************************************************************************)
EXTENDS Integers, Sequences, FiniteSets, TLC

VARIABLES
    messages,          \* st.session_state.messages
    style,             \* sidebar selectbox "Style"
    joke_count,        \* sidebar slider "How many jokes?"
    family_friendly,   \* sidebar checkbox "Family-friendly"
    explain,           \* sidebar checkbox "Add brief explanations"
    language_theme,    \* sidebar text_input "Language/Stack (optional)"
    api_key_set,       \* whether the environment holds the credential OpenAI() needs
    event,             \* the button pressed or the chat text submitted in the latest run of main()
    entry_messages,    \* st.session_state.messages as the latest run of main() found it
    request,           \* messages= of the completion request sent by the latest run (<<>>: none)
    response,          \* what the completion service answered to that request
    written,           \* the reply st.write() showed in the latest run (<<>>: none)
    error,             \* the text st.error() showed in the latest run (<<>>: none)
    rerun_pending,     \* st.experimental_rerun() was called: the host runs main() again
    call,              \* PromptSpec: the prompt-builder call under test
    result             \* PromptSpec: what that call returned

session_vars == <<messages, style, joke_count, family_friendly, explain, language_theme,
                  api_key_set, event, entry_messages, request, response, written, error,
                  rerun_pending>>
prompt_vars == <<call, result>>
vars == <<session_vars, prompt_vars>>

----------------------------------------------------------------------------
(* Bounds of the model.                                                    *)

\* A chat submission is taken while the history holds fewer turns than this.
MaxTurns == 2
\* The longest text given to build_contextual_instruction in PromptSpec.
MaxLen == 3
\* The most choices one response of the completion service holds.
MaxChoices == 2

----------------------------------------------------------------------------
(* Text.                                                                   *)

Whitespace == {" ", "\n"}
Alphabet == Whitespace \cup {"a"}

BoundedSeq(S, n) == UNION {[1..k -> S] : k \in 0..n}

\* str.strip(): leading and trailing whitespace removed, one character at a time.
RECURSIVE lstrip(_)
lstrip(s) == IF s = <<>> THEN s
             ELSE IF s[1] \in Whitespace THEN lstrip(Tail(s)) ELSE s

RECURSIVE rstrip(_)
rstrip(s) == IF s = <<>> THEN s
             ELSE IF s[Len(s)] \in Whitespace THEN rstrip(SubSeq(s, 1, Len(s) - 1)) ELSE s

\* Mutant: lstrip() where strip() is meant.
strip_left_only(s) == lstrip(s)

strip(s) == rstrip(lstrip(s))

----------------------------------------------------------------------------
(* Prompt builders.                                                        *)

FamilyFriendlyClause ==
    "Keep it clean, inclusive, and family-friendly. Avoid offensive, derogatory, or NSFW content."

DefaultStyleInstr == "Use any playful style that suits the topic."

\* Mutant: one key of the dict misspelt, so that its style falls to the default.
style_instr_misspelt(s) ==
    CASE s = "Surprise me"     -> "Use any playful style that suits the topic."
      [] s = "One-liners"      -> "Prefer ultra-short, punchy one-liners."
      [] s = "Dad jokes"       -> "Lean into wholesome, groan-worthy dad-joke energy."
      [] s = "Puns"            -> "Favor wordplay and puns."
      [] s = "Roasts"          ->
            "Do lighthearted, gentle roasts about code or tools without attacking people."
      [] s = "Haiku"           ->
            "Format jokes as haiku. Keep syllable balance approximate, content humorous."
      [] OTHER                 -> DefaultStyleInstr

\* The dict of build_system_prompt and its .get(style, default).
style_instr(s) ==
    CASE s = "Surprise me"     -> "Use any playful style that suits the topic."
      [] s = "One-liners"      -> "Prefer ultra-short, punchy one-liners."
      [] s = "Dad jokes"       -> "Lean into wholesome, groan-worthy dad-joke energy."
      [] s = "Puns"            -> "Favor wordplay and puns."
      [] s = "Roasts (gentle)" ->
            "Do lighthearted, gentle roasts about code or tools without attacking people."
      [] s = "Haiku"           ->
            "Format jokes as haiku. Keep syllable balance approximate, content humorous."
      [] OTHER                 -> DefaultStyleInstr

explain_instr(e) ==
    IF e THEN "Optionally add a very brief one-line explanation after each joke, labeled 'Why: ...'."
         ELSE "Do not add any explanations, only the jokes."

ff_clause(ff) == IF ff THEN <<FamilyFriendlyClause>> ELSE <<>>

build_system_prompt(s, n, ff, e) ==
    <<"You are a witty, friendly comedian AI who tells programming-related jokes.", "\n">>
    \o ff_clause(ff) \o <<"\n">>
    \o <<"Style preference: ", style_instr(s), "\n">>
    \o <<"Number of jokes: ", ToString(n), " (separate jokes with blank lines).", "\n">>
    \o <<explain_instr(e), "\n">>
    \o <<"Keep jokes concise. Prefer original twists. Avoid repeating the same pattern.">>

FallbackInstruction ==
    <<"Tell programming jokes. If no topic is given, pick common developer themes.">>

theme_clause(t) == <<"Focus on the programming language or stack: ">> \o t \o <<".">>
topics_clause(t) == <<"User requested topic/keywords: ">> \o t \o <<".">>

\* " ".join(extras)
RECURSIVE join_space(_)
join_space(parts) ==
    IF parts = <<>> THEN <<>>
    ELSE IF Len(parts) = 1 THEN parts[1]
    ELSE parts[1] \o <<" ">> \o join_space(Tail(parts))

build_contextual_instruction(theme, topics) ==
    LET extras1 == IF strip(theme) # <<>> THEN <<theme_clause(strip(theme))>> ELSE <<>>
        extras  == IF strip(topics) # <<>>
                   THEN Append(extras1, topics_clause(strip(topics)))
                   ELSE extras1
    IN IF extras = <<>> THEN FallbackInstruction ELSE join_space(extras)

----------------------------------------------------------------------------
(* The completion service and generate_reply.                              *)

Replies == {<<"reply A">>, <<"reply B">>}
Exceptions == {"APIConnectionError", "AuthenticationError"}

NoResponse == [status |-> "none", choices |-> <<>>, exc |-> ""]

\* What client.chat.completions.create can do: answer with choices, or raise.
ServiceOutcomes ==
    {[status |-> "ok", choices |-> c, exc |-> ""] : c \in BoundedSeq(Replies, MaxChoices)}
    \cup {[status |-> "raised", choices |-> <<>>, exc |-> x] : x \in Exceptions}

turn(r, c) == [role |-> r, content |-> c]

\* Mutant: the system entry appended after the conversation.
generate_reply_system_last(outcome, conversation, system_prompt) ==
    LET sent == conversation \o <<turn("system", system_prompt)>>
    IN  IF outcome.status = "raised"
        THEN [sent |-> sent, raised |-> outcome.exc, value |-> <<>>]
        ELSE IF outcome.choices = <<>>
        THEN [sent |-> sent, raised |-> "IndexError", value |-> <<>>]
        ELSE [sent |-> sent, raised |-> "", value |-> outcome.choices[1]]

\* generate_reply: the messages sent, the exception that leaves it ("": none) and
\* the value returned.  response.choices[0] of an empty list raises IndexError.
generate_reply(outcome, conversation, system_prompt) ==
    LET sent == <<turn("system", system_prompt)>> \o conversation
    IN  IF outcome.status = "raised"
        THEN [sent |-> sent, raised |-> outcome.exc, value |-> <<>>]
        ELSE IF outcome.choices = <<>>
        THEN [sent |-> sent, raised |-> "IndexError", value |-> <<>>]
        ELSE [sent |-> sent, raised |-> "", value |-> outcome.choices[1]]

----------------------------------------------------------------------------
(* The session.                                                            *)

Styles == {"Surprise me", "One-liners", "Dad jokes", "Puns", "Roasts (gentle)", "Haiku"}
MinJokes == 1
MaxJokes == 5
DefaultJokes == 2

suggestions == << <<"Tell me a Python joke">>, <<"Jokes about debugging">>,
                  <<"Make a pun about Git">>, <<"Frontend vs backend joke">>,
                  <<"Cloud ops humor">>, <<"SQL jokes">> >>

\* The values the session takes its slider and its text inputs through: a part of
\* what the widgets offer (1..5 jokes, any text).
SessionJokeCounts == {DefaultJokes, MaxJokes}
ThemeTexts == {<<>>, <<"a">>}
ChatTexts == {<<" ">>, <<" ", "a">>}

NoEvent == [widget |-> "none", value |-> <<>>]

NoCall == [fn |-> "none", args |-> <<>>]
NoResult == [returned |-> FALSE, value |-> <<>>]

init_state ==
    /\ messages = <<>>

Init ==
    /\ init_state
    /\ style = "Surprise me"
    /\ joke_count = DefaultJokes
    /\ family_friendly = TRUE
    /\ explain = FALSE
    /\ language_theme = <<>>
    /\ api_key_set \in BOOLEAN
    /\ event = NoEvent
    /\ entry_messages = <<>>
    /\ request = <<>>
    /\ response = NoResponse
    /\ written = <<>>
    /\ error = <<>>
    /\ rerun_pending = FALSE
    /\ call = NoCall
    /\ result = NoResult

\* What a run of main() does when no button was pressed and st.chat_input returned
\* None: render only.  Suggestions are drawn while the history is empty.
render_only ==
    /\ entry_messages' = messages
    /\ messages' = messages
    /\ request' = <<>>
    /\ response' = NoResponse
    /\ written' = <<>>
    /\ error' = <<>>
    /\ rerun_pending' = FALSE
    /\ UNCHANGED <<api_key_set, prompt_vars>>

\* The user changes one sidebar widget; Streamlit runs main() with the new value.
SelectStyle ==
    /\ ~rerun_pending
    /\ \E s \in Styles \ {style} : style' = s
    /\ event' = NoEvent
    /\ render_only
    /\ UNCHANGED <<joke_count, family_friendly, explain, language_theme>>

SlideJokeCount ==
    /\ ~rerun_pending
    /\ \E n \in SessionJokeCounts \ {joke_count} : joke_count' = n
    /\ event' = NoEvent
    /\ render_only
    /\ UNCHANGED <<style, family_friendly, explain, language_theme>>

ToggleFamilyFriendly ==
    /\ ~rerun_pending
    /\ family_friendly' = ~family_friendly
    /\ event' = NoEvent
    /\ render_only
    /\ UNCHANGED <<style, joke_count, explain, language_theme>>

ToggleExplain ==
    /\ ~rerun_pending
    /\ explain' = ~explain
    /\ event' = NoEvent
    /\ render_only
    /\ UNCHANGED <<style, joke_count, family_friendly, language_theme>>

TypeLanguageTheme ==
    /\ ~rerun_pending
    /\ \E t \in ThemeTexts \ {language_theme} : language_theme' = t
    /\ event' = NoEvent
    /\ render_only
    /\ UNCHANGED <<style, joke_count, family_friendly, explain>>

\* Mutant: only the latest turn is dropped.
clear_chat_last_only(msgs) == SubSeq(msgs, 1, Len(msgs) - 1)

\* sidebar_controls, "Clear chat" pressed: the list is emptied and the run stops
\* at st.experimental_rerun(), before anything else of main() is reached.
clear_chat(msgs) == <<>>

ClearChat ==
    /\ ~rerun_pending
    /\ event' = [widget |-> "Clear chat", value |-> <<>>]
    /\ entry_messages' = messages
    /\ messages' = clear_chat(messages)
    /\ request' = <<>>
    /\ response' = NoResponse
    /\ written' = <<>>
    /\ error' = <<>>
    /\ rerun_pending' = TRUE
    /\ UNCHANGED <<style, joke_count, family_friendly, explain, language_theme,
                   api_key_set, prompt_vars>>

\* Mutant: the suggestions are drawn whatever the history holds.
PressSuggestionAnyTime ==
    /\ ~rerun_pending
    /\ Len(messages) < MaxTurns
    /\ \E i \in 1..Len(suggestions) :
          /\ event' = [widget |-> "sugg", value |-> suggestions[i]]
          /\ messages' = Append(messages, turn("user", suggestions[i]))
    /\ entry_messages' = messages
    /\ request' = <<>>
    /\ response' = NoResponse
    /\ written' = <<>>
    /\ error' = <<>>
    /\ rerun_pending' = TRUE
    /\ UNCHANGED <<style, joke_count, family_friendly, explain, language_theme,
                   api_key_set, prompt_vars>>

\* suggested_prompts, button i pressed: drawn only while the history is empty
\* (main, "if not st.session_state.messages").  The canned text is appended and
\* the run stops at st.experimental_rerun().
PressSuggestion ==
    /\ ~rerun_pending
    /\ messages = <<>>
    /\ \E i \in 1..Len(suggestions) :
          /\ event' = [widget |-> "sugg", value |-> suggestions[i]]
          /\ messages' = Append(messages, turn("user", suggestions[i]))
    /\ entry_messages' = messages
    /\ request' = <<>>
    /\ response' = NoResponse
    /\ written' = <<>>
    /\ error' = <<>>
    /\ rerun_pending' = TRUE
    /\ UNCHANGED <<style, joke_count, family_friendly, explain, language_theme,
                   api_key_set, prompt_vars>>

\* The run of main() that st.experimental_rerun() asked for: no button reads as
\* pressed, st.chat_input returns None.
Rerun ==
    /\ rerun_pending
    /\ event' = NoEvent
    /\ render_only
    /\ UNCHANGED <<style, joke_count, family_friendly, explain, language_theme>>

\* Mutant: the raw chat text stored as the user turn.
chat_turn_raw_text(msgs, system_prompt, theme, user_input, key_set, outcome) ==
    LET with_user == Append(msgs, turn("user", user_input))
        conversation == [i \in 1..Len(with_user) |->
                            turn(with_user[i].role, with_user[i].content)]
        r == generate_reply(outcome, conversation, system_prompt)
    IN  IF ~key_set
        THEN [messages |-> with_user, request |-> <<>>, response |-> NoResponse,
              written |-> <<>>, error |-> <<"Error: ", "OpenAIError">>]
        ELSE IF r.raised # ""
        THEN [messages |-> with_user, request |-> r.sent, response |-> outcome,
              written |-> <<>>, error |-> <<"Error: ", r.raised>>]
        ELSE [messages |-> Append(with_user, turn("assistant", r.value)),
              request |-> r.sent, response |-> outcome,
              written |-> r.value, error |-> <<>>]

\* Mutant: the user turn taken back when the call fails.
chat_turn_rollback(msgs, system_prompt, theme, user_input, key_set, outcome) ==
    LET context_instruction == build_contextual_instruction(theme, user_input)
        with_user == Append(msgs, turn("user", context_instruction))
        conversation == [i \in 1..Len(with_user) |->
                            turn(with_user[i].role, with_user[i].content)]
        r == generate_reply(outcome, conversation, system_prompt)
    IN  IF ~key_set
        THEN [messages |-> msgs, request |-> <<>>, response |-> NoResponse,
              written |-> <<>>, error |-> <<"Error: ", "OpenAIError">>]
        ELSE IF r.raised # ""
        THEN [messages |-> msgs, request |-> r.sent, response |-> outcome,
              written |-> <<>>, error |-> <<"Error: ", r.raised>>]
        ELSE [messages |-> Append(with_user, turn("assistant", r.value)),
              request |-> r.sent, response |-> outcome,
              written |-> r.value, error |-> <<>>]

\* Mutant: the reply stored without the user turn that asked for it.
chat_turn_no_user_turn(msgs, system_prompt, theme, user_input, key_set, outcome) ==
    LET context_instruction == build_contextual_instruction(theme, user_input)
        with_user == Append(msgs, turn("user", context_instruction))
        conversation == [i \in 1..Len(with_user) |->
                            turn(with_user[i].role, with_user[i].content)]
        r == generate_reply(outcome, conversation, system_prompt)
    IN  IF ~key_set
        THEN [messages |-> msgs, request |-> <<>>, response |-> NoResponse,
              written |-> <<>>, error |-> <<"Error: ", "OpenAIError">>]
        ELSE IF r.raised # ""
        THEN [messages |-> msgs, request |-> r.sent, response |-> outcome,
              written |-> <<>>, error |-> <<"Error: ", r.raised>>]
        ELSE [messages |-> Append(msgs, turn("assistant", r.value)),
              request |-> r.sent, response |-> outcome,
              written |-> r.value, error |-> <<>>]

\* main, the body of "if user_input:": what it leaves in the history, what it
\* sends and what it shows.  get_client() raises without a credential.
chat_turn(msgs, system_prompt, theme, user_input, key_set, outcome) ==
    LET context_instruction == build_contextual_instruction(theme, user_input)
        with_user == Append(msgs, turn("user", context_instruction))
        conversation == [i \in 1..Len(with_user) |->
                            turn(with_user[i].role, with_user[i].content)]
        r == generate_reply(outcome, conversation, system_prompt)
    IN  IF ~key_set
        THEN [messages |-> with_user, request |-> <<>>, response |-> NoResponse,
              written |-> <<>>, error |-> <<"Error: ", "OpenAIError">>]
        ELSE IF r.raised # ""
        THEN [messages |-> with_user, request |-> r.sent, response |-> outcome,
              written |-> <<>>, error |-> <<"Error: ", r.raised>>]
        ELSE [messages |-> Append(with_user, turn("assistant", r.value)),
              request |-> r.sent, response |-> outcome,
              written |-> r.value, error |-> <<>>]

\* The user submits a non-empty text in the chat input.
ChatSubmit ==
    /\ ~rerun_pending
    /\ Len(messages) < MaxTurns
    /\ \E user_input \in ChatTexts, outcome \in ServiceOutcomes :
          /\ user_input # <<>>
          /\ event' = [widget |-> "chat_input", value |-> user_input]
          /\ LET after == chat_turn(messages,
                                    build_system_prompt(style, joke_count,
                                                        family_friendly, explain),
                                    language_theme, user_input, api_key_set, outcome)
             IN  /\ messages' = after.messages
                 /\ request' = after.request
                 /\ response' = after.response
                 /\ written' = after.written
                 /\ error' = after.error
    /\ entry_messages' = messages
    /\ rerun_pending' = FALSE
    /\ UNCHANGED <<style, joke_count, family_friendly, explain, language_theme,
                   api_key_set, prompt_vars>>

Next ==
    \/ SelectStyle
    \/ SlideJokeCount
    \/ ToggleFamilyFriendly
    \/ ToggleExplain
    \/ TypeLanguageTheme
    \/ ClearChat
    \/ PressSuggestion
    \/ Rerun
    \/ ChatSubmit

Spec == Init /\ [][Next]_vars

----------------------------------------------------------------------------
(* The prompt builders alone: every call within the bounds, and its result. *)

PromptStyles == Styles \cup {"Limericks", ""}
PromptJokeCounts == (MinJokes - 1)..(MaxJokes + 1)
Texts == BoundedSeq(Alphabet, MaxLen)

SystemPromptCalls ==
    {[fn |-> "build_system_prompt", args |-> <<s, n, ff, e>>] :
        s \in PromptStyles, n \in PromptJokeCounts, ff \in BOOLEAN, e \in BOOLEAN}

ContextualInstructionCalls ==
    {[fn |-> "build_contextual_instruction", args |-> <<t, u>>] : t \in Texts, u \in Texts}

PromptInit ==
    /\ init_state
    /\ style = "Surprise me"
    /\ joke_count = DefaultJokes
    /\ family_friendly = TRUE
    /\ explain = FALSE
    /\ language_theme = <<>>
    /\ api_key_set = TRUE
    /\ event = NoEvent
    /\ entry_messages = <<>>
    /\ request = <<>>
    /\ response = NoResponse
    /\ written = <<>>
    /\ error = <<>>
    /\ rerun_pending = FALSE
    /\ call \in SystemPromptCalls \cup ContextualInstructionCalls
    /\ result = NoResult

CallBuildSystemPrompt ==
    /\ call.fn = "build_system_prompt"
    /\ ~result.returned
    /\ result' = [returned |-> TRUE,
                  value |-> build_system_prompt(call.args[1], call.args[2],
                                                call.args[3], call.args[4])]
    /\ UNCHANGED <<call, session_vars>>

CallBuildContextualInstruction ==
    /\ call.fn = "build_contextual_instruction"
    /\ ~result.returned
    /\ result' = [returned |-> TRUE,
                  value |-> build_contextual_instruction(call.args[1], call.args[2])]
    /\ UNCHANGED <<call, session_vars>>

PromptNext ==
    \/ CallBuildSystemPrompt
    \/ CallBuildContextualInstruction

PromptSpec == PromptInit /\ [][PromptNext]_vars

----------------------------------------------------------------------------
(* Properties.                                                             *)

\* The latest run of main() handled a chat submission.
ChatRun == event.widget = "chat_input"

\* The completion call of the latest run returned a reply / raised.
CallSucceeded ==
    ChatRun /\ api_key_set /\ response.status = "ok" /\ response.choices # <<>>
CallRaised ==
    ChatRun /\ api_key_set
    /\ (response.status = "raised" \/ (response.status = "ok" /\ response.choices = <<>>))

\* The user turn that the latest chat submission has to store.
SubmittedUserTurn ==
    turn("user", build_contextual_instruction(language_theme, event.value))

CurrentSystemPrompt == build_system_prompt(style, joke_count, family_friendly, explain)

\* C1: a chat submission whose completion call succeeds leaves the history as it
\* found it, followed by one user turn holding the contextual instruction (never
\* the raw text) and one assistant turn holding the reply of the call.
C1_SuccessAppendsUserThenAssistant ==
    CallSucceeded =>
        /\ messages = entry_messages
                        \o <<SubmittedUserTurn, turn("assistant", response.choices[1])>>
        /\ messages[Len(entry_messages) + 1].content # event.value

C1_Witness ==
    /\ CallSucceeded
    /\ entry_messages # <<>>
    /\ language_theme # <<>>
    /\ Len(messages) = Len(entry_messages) + 2

\* C2: when the completion call raises, an error is shown, no assistant turn is
\* stored, the user turn of the submission stays after the unchanged earlier turns,
\* and the session awaits input again (no rerun is pending).
C2_FailureKeepsUserTurn ==
    CallRaised =>
        /\ error # <<>>
        /\ error[1] = "Error: "
        /\ written = <<>>
        /\ messages = Append(entry_messages, SubmittedUserTurn)
        /\ ~rerun_pending

C2_Witness ==
    /\ CallRaised
    /\ response.status = "raised"
    /\ entry_messages # <<>>
    /\ error = <<"Error: ", response.exc>>

\* C3: the run of main() that follows a pressed suggestion sends a completion
\* request for the history that now holds the canned user turn.
C3_SuggestionTriggersGeneration ==
    [][(rerun_pending /\ event.widget = "sugg") => request' # <<>>]_vars

\* C4 as stated: no two adjacent turns have the same role.
C4_RolesStrictlyAlternate ==
    \A i \in 1..(Len(messages) - 1) : messages[i].role # messages[i + 1].role

\* C4, amended: two adjacent turns of the same role are both user turns (never two
\* assistant turns in a row).
C4_AdjacentSameRoleIsUser ==
    \A i \in 1..(Len(messages) - 1) :
        messages[i].role = messages[i + 1].role => messages[i].role = "user"

C4_Witness ==
    /\ \E i \in 1..(Len(messages) - 1) :
          messages[i].role = "user" /\ messages[i + 1].role = "user"
    /\ \E i \in 1..Len(messages) : messages[i].role = "assistant"

\* C5: the run in which "Clear chat" is pressed leaves the history empty, sends no
\* completion request and stores no turn.
C5_ClearEmptiesHistory ==
    event.widget = "Clear chat" =>
        /\ messages = <<>>
        /\ request = <<>>
        /\ response = NoResponse
        /\ written = <<>>

C5_Witness ==
    /\ event.widget = "Clear chat"
    /\ Len(entry_messages) >= 2
    /\ messages = <<>>

\* C6: one completion request per user turn and none without one: a run of main()
\* that ends an interaction (no rerun asked for) sends a request exactly when a
\* user turn was stored by it or by the run that handed over to it with a rerun.
\* Stated for sessions whose credential is set, so that OpenAI() itself never fails.
C6_OneRequestPerUserTurn ==
    [][(api_key_set /\ ~rerun_pending') =>
          ((\/ (/\ Len(messages') > Len(messages)
                /\ messages'[Len(messages) + 1].role = "user")
            \/ (rerun_pending /\ event.widget = "sugg"))
           <=> request' # <<>>)]_vars

\* C7: the request holds one system entry with the system prompt, then the whole
\* history in its order, ending with the user turn just stored; the reply is the
\* first choice's content; an exception of the call reaches main's handler.
C7_RequestIsSystemThenHistory ==
    request # <<>> =>
        /\ request = <<turn("system", CurrentSystemPrompt)>>
                        \o Append(entry_messages, SubmittedUserTurn)
        /\ Len(request) = Len(entry_messages) + 2
        /\ {i \in 1..Len(request) : request[i].role = "system"} = {1}
        /\ request[Len(request)] = SubmittedUserTurn
        /\ CallSucceeded => written = response.choices[1]
        /\ response.status = "raised" => error = <<"Error: ", response.exc>>

C7_Witness ==
    /\ request # <<>>
    /\ entry_messages # <<>>
    /\ CallSucceeded
    /\ Len(response.choices) = 2
    /\ response.choices[1] # response.choices[2]
    /\ style # "Surprise me"

IsBlank(t) == \A i \in 1..Len(t) : t[i] \in Whitespace

\* s is t without its leading and trailing whitespace.
IsStripped(t, s) ==
    \E i \in 1..(Len(t) + 1), j \in 0..Len(t) :
        /\ s = SubSeq(t, i, j)
        /\ \A k \in 1..(i - 1) : t[k] \in Whitespace
        /\ \A k \in (j + 1)..Len(t) : t[k] \in Whitespace
        /\ s = <<>> \/ (s[1] \notin Whitespace /\ s[Len(s)] \notin Whitespace)

Stripped(t) ==
    CHOOSE s \in {SubSeq(t, i, j) : i \in 1..(Len(t) + 1), j \in 0..Len(t)} : IsStripped(t, s)

\* C8: build_contextual_instruction returns the fallback exactly when both inputs
\* are blank; otherwise the theme clause (iff the theme is not blank) and the topics
\* clause (iff the topics are not blank), in that order, joined by one space, each
\* built from the stripped input.
C8_ContextualInstruction ==
    (call.fn = "build_contextual_instruction" /\ result.returned) =>
        LET theme  == call.args[1]
            topics == call.args[2]
        IN  /\ (result.value = FallbackInstruction) <=> (IsBlank(theme) /\ IsBlank(topics))
            /\ (~IsBlank(theme) /\ ~IsBlank(topics)) =>
                  result.value = theme_clause(Stripped(theme)) \o <<" ">>
                                    \o topics_clause(Stripped(topics))
            /\ (~IsBlank(theme) /\ IsBlank(topics)) =>
                  result.value = theme_clause(Stripped(theme))
            /\ (IsBlank(theme) /\ ~IsBlank(topics)) =>
                  result.value = topics_clause(Stripped(topics))

C8_Witness ==
    /\ call.fn = "build_contextual_instruction"
    /\ result.returned
    /\ call.args[1] = <<" ", "a", "\n">>
    /\ call.args[2] = <<"a", " ", " ">>
    /\ result.value = <<"Focus on the programming language or stack: ", "a", ".", " ",
                        "User requested topic/keywords: ", "a", ".">>

Contains(text, part) ==
    \E i \in 0..(Len(text) - Len(part)) : SubSeq(text, i + 1, i + Len(part)) = part

\* The clause each of the six styles is mapped to (src/app.py, lines 17-22).
MappedClause ==
    [s \in Styles |->
        CASE s = "Surprise me"     -> "Use any playful style that suits the topic."
          [] s = "One-liners"      -> "Prefer ultra-short, punchy one-liners."
          [] s = "Dad jokes"       -> "Lean into wholesome, groan-worthy dad-joke energy."
          [] s = "Puns"            -> "Favor wordplay and puns."
          [] s = "Roasts (gentle)" ->
                "Do lighthearted, gentle roasts about code or tools without attacking people."
          [] s = "Haiku"           ->
                "Format jokes as haiku. Keep syllable balance approximate, content humorous."]

\* C9: build_system_prompt returns, for each of the six styles, a text holding the
\* clause the style is mapped to, and for any other style a text holding the default
\* clause; the text holds the family-friendly clause iff family_friendly is true.
C9_SystemPromptClauses ==
    (call.fn = "build_system_prompt" /\ result.returned) =>
        LET s  == call.args[1]
            ff == call.args[3]
        IN  /\ s \in Styles => Contains(result.value, <<MappedClause[s]>>)
            /\ s \notin Styles =>
                  Contains(result.value, <<"Use any playful style that suits the topic.">>)
            /\ Contains(result.value, <<FamilyFriendlyClause>>) <=> ff

C9_Witness ==
    /\ call.fn = "build_system_prompt"
    /\ result.returned
    /\ call.args[1] = "Limericks"
    /\ call.args[3] = FALSE
    /\ Contains(result.value, <<DefaultStyleInstr>>)

SuggestionTexts == {suggestions[i] : i \in 1..Len(suggestions)}

\* C10: every stored turn is a user or an assistant turn, the history never begins
\* with an assistant turn, every assistant turn directly follows a user turn, and a
\* canned suggestion is stored only as the first turn.
C10_HistoryShape ==
    /\ \A i \in 1..Len(messages) : messages[i].role \in {"user", "assistant"}
    /\ messages # <<>> => messages[1].role = "user"
    /\ \A i \in 2..Len(messages) :
          messages[i].role = "assistant" => messages[i - 1].role = "user"
    /\ \A i \in 1..Len(messages) :
          (messages[i].role = "user" /\ messages[i].content \in SuggestionTexts) => i = 1

C10_Witness ==
    /\ Len(messages) = 3
    /\ messages[1].content \in SuggestionTexts
    /\ messages[3].role = "assistant"

====
